---- MODULE Spec2Model ----
(***************************************************************************)
(* Verification model of the from-scratch containers of the study notes:   *)
(*   MinHeap      src/data_structures/08_heaps.py                          *)
(*   UnionFind    src/algorithms/09_misc_algos.py                          *)
(*   BST ops      src/data_structures/07_binary_trees.py                   *)
(*   LinkedList   src/data_structures/06_linked_lists.py                   *)
(* Each container is an independent object; one specification per          *)
(* container drives its operations and leaves the other objects alone.     *)
(* Variables whose comment says "ghost" are history kept for stating       *)
(* properties; the code does not hold them.                                *)
(***************************************************************************)
EXTENDS Integers, Sequences, FiniteSets, TLC

VARIABLES
    heap,      \* MinHeap.heap: the backing array (index i of the code is heap[i+1])
    hin,       \* ghost: values pushed since the heap was last empty
    hout,      \* ghost: values returned by pop since the heap was last empty
    hmixed,    \* ghost: a push followed a pop in the current run
    hcall,     \* ghost: the last MinHeap call: its name, whether it raised, what it returned
    parent,    \* UnionFind.parent
    rank,      \* UnionFind.rank
    conn,      \* ghost: the equivalence generated by the pairs passed to union
    ucall,     \* ghost: the last union call and what it returned
    tree,      \* the BST the caller holds in "root" (Nil, or <<val, left, right>>)
    bins,      \* ghost: values inserted since the tree was last empty, up to the first delete
    bonly,     \* ghost: the tree was built from empty by insert_bst calls only
    blast,     \* ghost: the last BST call, the tree before it and the inserts before it
    nodes,     \* the live ListNode objects: id -> [val, next]
    head,      \* LinkedList.head (a node id, or None)
    tail,      \* LinkedList.tail (a node id, or None)
    llast,     \* ghost: the last LinkedList call and the list before it
    rnodes,    \* the ListNode objects of the chain handed to reverse_list
    rhead,     \* the caller's head: the argument, then each returned head
    rorig,     \* ghost: the node ids of the original chain, head first
    rcount,    \* ghost: how many times head = reverse_list(head) has run
    sdata,     \* Stack.data (a list; the top is the last element)
    qdata,     \* Queue.data (a deque; the front is the first element)
    sqcall,    \* ghost: the last Stack / Queue call, whether the object was empty,
               \* whether the call raised, and what it returned
    sarr,      \* the caller's list passed to heap_sort (heapify and heappop change it)
    sres,      \* what heap_sort returned: whether it raised, and the list
    sinput,    \* ghost: the list as it was before the call
    scalls,    \* ghost: how many times heap_sort has run
    wnums,     \* the list nums passed to the three sliding-window functions
    wk,        \* the window size k passed with it
    wfn,       \* which of the three functions is running ("idle" / "done" outside them)
    wi,        \* the running function's loop index i (the next one to run)
    wdq,       \* the running function's deque of indices
    wres,      \* the running function's result list so far
    wraised,   \* the running function read q[0] of an empty deque (IndexError)
    wout,      \* what each function returned
    bnums,     \* the sorted list passed to binary_search / lower_bound / upper_bound
    btarget,   \* the target passed with it
    bfn,       \* which of the three functions was called ("idle": none)
    bleft,     \* the local left
    bright,    \* the local right
    bpc,       \* "loop" while the function runs, "done" once it has returned
    bret,      \* the value returned
    boob,      \* the function read nums[mid] with mid outside 0..len(nums)-1
    bsteps,    \* ghost: how many times the loop test has run
    bwidth,    \* ghost: right - left before the last pass
    mstack,    \* MinStack.stack (the top is the last element)
    mstack2,   \* MinStack.stack2, the stack of minima
    mcall,     \* ghost: the last MinStack call, its value, and whether it raised
    cstrs,     \* the list of strings passed to Solution.encode (a string is a sequence of characters)
    cenc,      \* the string encode returned
    cdec,      \* the list decode returned for it
    cpc,       \* "idle", or how far decode(encode(strs)) has got: "start", "encoded", "decoded"
    cnodes,    \* how many ListNodes the chain handed to has_cycle has (ids 1..cnodes, head first)
    cback,     \* the next of the last node: None, or the id of a node of the chain
    cslow,     \* the local slow
    cfast,     \* the local fast
    chpc,      \* "idle", "loop" while has_cycle runs, "done" once it has returned
    cret,      \* the value returned
    cpasses    \* ghost: how many times the while test has run

heapVars == <<heap, hin, hout, hmixed, hcall>>
ufVars == <<parent, rank, conn, ucall>>
bstVars == <<tree, bins, bonly, blast>>
llVars == <<nodes, head, tail, llast>>
revVars == <<rnodes, rhead, rorig, rcount>>
sqVars == <<sdata, qdata, sqcall>>
sortVars == <<sarr, sres, sinput, scalls>>
winVars == <<wnums, wk, wfn, wi, wdq, wres, wraised, wout>>
searchVars == <<bnums, btarget, bfn, bleft, bright, bpc, bret, boob, bsteps, bwidth>>
msVars == <<mstack, mstack2, mcall>>
codecVars == <<cstrs, cenc, cdec, cpc>>
cycleVars == <<cnodes, cback, cslow, cfast, chpc, cret, cpasses>>
vars == <<heapVars, ufVars, bstVars, llVars, revVars, sqVars, sortVars, winVars, searchVars, msVars, codecVars, cycleVars>>

\* What the operations of one object leave alone: the other objects.
HeapFrame == UNCHANGED <<ufVars, bstVars, llVars, revVars, sqVars, sortVars, winVars, searchVars, msVars, codecVars, cycleVars>>
UFFrame == UNCHANGED <<heapVars, bstVars, llVars, revVars, sqVars, sortVars, winVars, searchVars, msVars, codecVars, cycleVars>>
BSTFrame == UNCHANGED <<heapVars, ufVars, llVars, revVars, sqVars, sortVars, winVars, searchVars, msVars, codecVars, cycleVars>>
LLFrame == UNCHANGED <<heapVars, ufVars, bstVars, revVars, sqVars, sortVars, winVars, searchVars, msVars, codecVars, cycleVars>>
RevFrame == UNCHANGED <<heapVars, ufVars, bstVars, llVars, sqVars, sortVars, winVars, searchVars, msVars, codecVars, cycleVars>>
SQFrame == UNCHANGED <<heapVars, ufVars, bstVars, llVars, revVars, sortVars, winVars, searchVars, msVars, codecVars, cycleVars>>
SortFrame == UNCHANGED <<heapVars, ufVars, bstVars, llVars, revVars, sqVars, winVars, searchVars, msVars, codecVars, cycleVars>>
WinFrame == UNCHANGED <<heapVars, ufVars, bstVars, llVars, revVars, sqVars, sortVars, searchVars, msVars, codecVars, cycleVars>>
SearchFrame == UNCHANGED <<heapVars, ufVars, bstVars, llVars, revVars, sqVars, sortVars, winVars, msVars, codecVars, cycleVars>>
MSFrame == UNCHANGED <<heapVars, ufVars, bstVars, llVars, revVars, sqVars, sortVars, winVars, searchVars, codecVars, cycleVars>>
CodecFrame == UNCHANGED <<heapVars, ufVars, bstVars, llVars, revVars, sqVars, sortVars, winVars, searchVars, msVars, cycleVars>>
CycleFrame == UNCHANGED <<heapVars, ufVars, bstVars, llVars, revVars, sqVars, sortVars, winVars, searchVars, msVars, codecVars>>

\* ------------------------------------------------------------------ bounds
MaxVal == 3      \* values are drawn from 1..MaxVal
MaxPush == 6     \* pushes in one run of the heap (between two empty states)
NumElems == 5    \* n of UnionFind(n)
MaxNodes == 5    \* nodes in the BST
MaxLen == 4      \* nodes reachable from LinkedList.head
MaxListVal == 2  \* list values are drawn from 1..MaxListVal
MaxRev == 2      \* successive reverse_list calls on one chain
MaxSQLen == 3    \* elements held by the Stack and by the Queue
MaxSortVal == 8  \* heap_sort inputs hold values from 1..MaxSortVal
MaxSortLen == 4  \* length of a heap_sort input
MaxWinVal == 1   \* sliding-window inputs hold values from -1..MaxWinVal
MaxWinLen == 4   \* length of a sliding-window input
MaxSearchVal == 3  \* searched lists hold values from 1..MaxSearchVal
MaxSearchLen == 6  \* length of a searched list
MaxMinStack == 4   \* elements held by the MinStack
MaxStrs == 2       \* strings in a list passed to encode
MaxChunks == 2     \* pieces a string passed to encode is made of
MaxChain == 8      \* nodes of a chain passed to has_cycle

Vals == 1..MaxVal
Elems == 0..(NumElems - 1)
ListValues == 1..MaxListVal
SortVals == 1..MaxSortVal
WinVals == (0 - 1)..MaxWinVal
SearchVals == 1..MaxSearchVal

\* ------------------------------------------------------------- generic helpers
\* Python's None, where a value or a node reference is expected.
None == 0

Swap(s, i, j) == [s EXCEPT ![i + 1] = s[j + 1], ![j + 1] = s[i + 1]]

RECURSIVE InsertSorted(_, _)
InsertSorted(s, v) ==
    IF s = <<>> THEN <<v>>
    ELSE IF v <= Head(s) THEN <<v>> \o s
    ELSE <<Head(s)>> \o InsertSorted(Tail(s), v)

RECURSIVE SortedCopy(_)
SortedCopy(s) == IF s = <<>> THEN <<>> ELSE InsertSorted(SortedCopy(Tail(s)), Head(s))

SeqsUpTo(S, n) == UNION {[1..k -> S] : k \in 0..n}

Reverse(s) == [i \in 1..Len(s) |-> s[Len(s) + 1 - i]]

IsNonDecreasing(s) == \A i \in 1..(Len(s) - 1) : s[i] <= s[i + 1]

\* ------------------------------------------------------------------ MinHeap
\* A sift-up that stops after the first swap.
bubble_up_once(h, i) ==
    IF i > 0 /\ h[i + 1] < h[((i - 1) \div 2) + 1]
    THEN Swap(h, i, (i - 1) \div 2)
    ELSE h

\* _bubble_up(i): swap with the parent while the element is smaller than it.
RECURSIVE bubble_up(_, _)
bubble_up(h, i) ==
    IF i > 0
    THEN LET par == (i - 1) \div 2    \* the code's local "parent"
         IN  IF h[i + 1] < h[par + 1]
             THEN bubble_up(Swap(h, i, par), par)
             ELSE h
    ELSE h

\* A sift-down that looks at the left child only.
RECURSIVE bubble_down_leftonly(_, _)
bubble_down_leftonly(h, i) ==
    LET n == Len(h)
        left == 2 * i + 1
    IN  IF left < n /\ h[left + 1] < h[i + 1]
        THEN bubble_down_leftonly(Swap(h, i, left), left)
        ELSE h

\* _bubble_down(i): swap with the smallest of the element and its children.
RECURSIVE bubble_down(_, _)
bubble_down(h, i) ==
    LET n == Len(h)
    IN  IF 2 * i + 1 < n
        THEN LET left == 2 * i + 1
                 right == 2 * i + 2
                 s1 == IF h[left + 1] < h[i + 1] THEN left ELSE i
                 smallest == IF right < n /\ h[right + 1] < h[s1 + 1] THEN right ELSE s1
             IN  IF smallest = i
                 THEN h
                 ELSE bubble_down(Swap(h, i, smallest), smallest)
        ELSE h

\* push(val): append, then sift the new last index up.
push(h, val) == bubble_up(Append(h, val), Len(h))

\* A pop that answers None on an empty heap.
pop_silent(h) ==
    IF Len(h) = 0
    THEN [raised |-> FALSE, out |-> None, heap |-> h]
    ELSE IF Len(h) = 1
    THEN [raised |-> FALSE, out |-> h[1], heap |-> <<>>]
    ELSE LET last == h[Len(h)]
             shrunk == SubSeq(h, 1, Len(h) - 1)
         IN  [raised |-> FALSE, out |-> h[1],
              heap |-> bubble_down([shrunk EXCEPT ![1] = last], 0)]

\* A pop that copies the last element to the root without removing it.
pop_noshrink(h) ==
    IF Len(h) = 0
    THEN [raised |-> TRUE, out |-> None, heap |-> h]
    ELSE IF Len(h) = 1
    THEN [raised |-> FALSE, out |-> h[1], heap |-> <<>>]
    ELSE [raised |-> FALSE, out |-> h[1],
          heap |-> bubble_down([h EXCEPT ![1] = h[Len(h)]], 0)]

\* pop(): the returned value and the array left behind.  On an empty heap the
\* length test fails and out = self.heap[0] raises IndexError before anything
\* is changed.
pop(h) ==
    IF Len(h) = 1
    THEN [raised |-> FALSE, out |-> h[1], heap |-> <<>>]
    ELSE IF Len(h) = 0
    THEN [raised |-> TRUE, out |-> None, heap |-> h]
    ELSE LET last == h[Len(h)]
             shrunk == SubSeq(h, 1, Len(h) - 1)
         IN  [raised |-> FALSE, out |-> h[1],
              heap |-> bubble_down([shrunk EXCEPT ![1] = last], 0)]

HeapInit ==
    /\ heap = <<>>
    /\ hin = <<>>
    /\ hout = <<>>
    /\ hmixed = FALSE
    /\ hcall = [op |-> "none", raised |-> FALSE, out |-> None]

HeapPush(v) ==
    /\ (heap = <<>> \/ Len(hin) < MaxPush)
    /\ heap' = push(heap, v)
    /\ hin' = IF heap = <<>> THEN <<v>> ELSE Append(hin, v)
    /\ hout' = IF heap = <<>> THEN <<>> ELSE hout
    /\ hmixed' = IF heap = <<>> THEN FALSE ELSE (hmixed \/ hout # <<>>)
    /\ hcall' = [op |-> "push", raised |-> FALSE, out |-> None]
    /\ HeapFrame

HeapPop ==
    /\ heap' = pop(heap).heap
    /\ hout' = IF pop(heap).raised THEN hout ELSE Append(hout, pop(heap).out)
    /\ hcall' = [op |-> "pop", raised |-> pop(heap).raised, out |-> pop(heap).out]
    /\ UNCHANGED <<hin, hmixed>>
    /\ HeapFrame

HeapNext ==
    \/ \E v \in Vals : HeapPush(v)
    \/ HeapPop

\* ---------------------------------------------------------------- UnionFind
\* A find that returns the root and re-points nothing.
RECURSIVE find_nocompress(_, _)
find_nocompress(p, x) ==
    IF p[x] # x
    THEN [r |-> find_nocompress(p, p[x]).r, p |-> p]
    ELSE [r |-> x, p |-> p]

\* find(x): the root of x, and the parent array after the recursive calls
\* have re-pointed every node on the path (self.parent[x] = self.find(...)).
RECURSIVE find(_, _)
find(p, x) ==
    IF p[x] # x
    THEN LET sub == find(p, p[x])
         IN  [r |-> sub.r, p |-> [sub.p EXCEPT ![x] = sub.r]]
    ELSE [r |-> x, p |-> p]

\* A union that re-points x itself, not the root of x, at the root of y.
union_linkarg(p, rk, x, y) ==
    LET fx == find(p, x)
        fy == find(fx.p, y)
    IN  IF fx.r = fy.r
        THEN [ret |-> FALSE, p |-> fy.p, rk |-> rk]
        ELSE [ret |-> TRUE, p |-> [fy.p EXCEPT ![x] = fy.r], rk |-> rk]

\* A union without the "already connected" test: equal roots fall through to
\* the equal-rank branch.
union_nocheck(p, rk, x, y) ==
    LET fx == find(p, x)
        fy == find(fx.p, y)
    IN  IF rk[fx.r] < rk[fy.r]
        THEN [ret |-> TRUE, p |-> [fy.p EXCEPT ![fx.r] = fy.r], rk |-> rk]
        ELSE IF rk[fx.r] > rk[fy.r]
        THEN [ret |-> TRUE, p |-> [fy.p EXCEPT ![fy.r] = fx.r], rk |-> rk]
        ELSE [ret |-> TRUE, p |-> [fy.p EXCEPT ![fy.r] = fx.r],
              rk |-> [rk EXCEPT ![fx.r] = rk[fx.r] + 1]]

\* A union that skips both finds and hangs x itself under y.
union_nofind(p, rk, x, y) ==
    IF x = y
    THEN [ret |-> FALSE, p |-> p, rk |-> rk]
    ELSE [ret |-> TRUE, p |-> [p EXCEPT ![x] = y], rk |-> rk]

\* A union that always hangs y's root under x's root, whatever the ranks.
union_norank(p, rk, x, y) ==
    LET fx == find(p, x)
        fy == find(fx.p, y)
    IN  IF fx.r = fy.r
        THEN [ret |-> FALSE, p |-> fy.p, rk |-> rk]
        ELSE [ret |-> TRUE, p |-> [fy.p EXCEPT ![fy.r] = fx.r],
              rk |-> IF rk[fx.r] = rk[fy.r]
                     THEN [rk EXCEPT ![fx.r] = rk[fx.r] + 1]
                     ELSE rk]

\* A union that forgets to raise the surviving root's rank on a tie.
union_norankinc(p, rk, x, y) ==
    LET fx == find(p, x)
        fy == find(fx.p, y)
    IN  IF fx.r = fy.r
        THEN [ret |-> FALSE, p |-> fy.p, rk |-> rk]
        ELSE IF rk[fx.r] < rk[fy.r]
        THEN [ret |-> TRUE, p |-> [fy.p EXCEPT ![fx.r] = fy.r], rk |-> rk]
        ELSE [ret |-> TRUE, p |-> [fy.p EXCEPT ![fy.r] = fx.r], rk |-> rk]

\* union(x, y): both finds run (and compress) first; then link by rank.
union(p, rk, x, y) ==
    LET fx == find(p, x)
        fy == find(fx.p, y)
        px == fx.r
        py == fy.r
        p2 == fy.p
    IN  IF px = py
        THEN [ret |-> FALSE, p |-> p2, rk |-> rk]
        ELSE IF rk[px] < rk[py]
        THEN [ret |-> TRUE, p |-> [p2 EXCEPT ![px] = py], rk |-> rk]
        ELSE IF rk[px] > rk[py]
        THEN [ret |-> TRUE, p |-> [p2 EXCEPT ![py] = px], rk |-> rk]
        ELSE [ret |-> TRUE, p |-> [p2 EXCEPT ![py] = px],
              rk |-> [rk EXCEPT ![px] = rk[px] + 1]]

\* Reference relation: reflexive-symmetric-transitive closure of a set of pairs.
RECURSIVE TransClosure(_)
TransClosure(R) ==
    LET R2 == R \cup {<<pq[1][1], pq[2][2]>> : pq \in {x \in R \X R : x[1][2] = x[2][1]}}
    IN  IF R2 = R THEN R ELSE TransClosure(R2)

EquivClosure(R) ==
    TransClosure(R \cup {<<e[2], e[1]>> : e \in R} \cup {<<a, a>> : a \in Elems})

UFInit ==
    /\ parent = [i \in Elems |-> i]
    /\ rank = [i \in Elems |-> 0]
    /\ conn = EquivClosure({})
    /\ ucall = [op |-> "none", ret |-> FALSE]

UFUnion(x, y) ==
    LET u == union(parent, rank, x, y)
    IN  /\ parent' = u.p
        /\ rank' = u.rk
        /\ ucall' = [op |-> "union", ret |-> u.ret]
        /\ conn' = IF <<x, y>> \in conn THEN conn
                    ELSE EquivClosure(conn \cup {<<x, y>>})
        /\ UFFrame

UFFind(x) ==
    /\ parent' = find(parent, x).p
    /\ UNCHANGED <<rank, conn, ucall>>
    /\ UFFrame

UFNext ==
    \/ \E x, y \in Elems : UFUnion(x, y)
    \/ \E x \in Elems : UFFind(x)

\* ---------------------------------------------------------------------- BST
\* TreeNode(val, left, right); None is the empty tuple.
Nil == <<>>
TreeNode(val, left, right) == <<val, left, right>>
ValOf(t) == t[1]
LeftOf(t) == t[2]
RightOf(t) == t[3]

RECURSIVE Size(_)
Size(t) == IF t = Nil THEN 0 ELSE 1 + Size(LeftOf(t)) + Size(RightOf(t))

\* inorder(root): the values in the order they are printed.
RECURSIVE inorder(_)
inorder(root) ==
    IF root = Nil THEN <<>>
    ELSE inorder(LeftOf(root)) \o <<ValOf(root)>> \o inorder(RightOf(root))

\* preorder(root) and postorder(root): the values in the order printed.
RECURSIVE preorder(_)
preorder(root) ==
    IF root = Nil THEN <<>>
    ELSE <<ValOf(root)>> \o preorder(LeftOf(root)) \o preorder(RightOf(root))

RECURSIVE postorder(_)
postorder(root) ==
    IF root = Nil THEN <<>>
    ELSE postorder(LeftOf(root)) \o postorder(RightOf(root)) \o <<ValOf(root)>>

\* The while loop of level_order on the deque q with the result res so far.
\* Reading node.val of a dequeued None raises AttributeError.
RECURSIVE level_loop(_, _)
level_loop(q, res) ==
    IF q = <<>> THEN [raised |-> FALSE, out |-> res]
    ELSE LET node == Head(q)
         IN  IF node = Nil THEN [raised |-> TRUE, out |-> res]
             ELSE level_loop(Tail(q)
                               \o (IF LeftOf(node) # Nil THEN <<LeftOf(node)>> ELSE <<>>)
                               \o (IF RightOf(node) # Nil THEN <<RightOf(node)>> ELSE <<>>),
                             Append(res, ValOf(node)))

\* A level_order without the "if not root" line.
level_order_noguard(root) == level_loop(<<root>>, <<>>)

level_order(root) ==
    IF root = Nil THEN [raised |-> FALSE, out |-> <<>>]
    ELSE level_loop(<<root>>, <<>>)

RECURSIVE search_bst(_, _)
search_bst(root, target) ==
    IF root = Nil THEN FALSE
    ELSE IF ValOf(root) = target THEN TRUE
    ELSE IF target < ValOf(root) THEN search_bst(LeftOf(root), target)
    ELSE search_bst(RightOf(root), target)

\* An insert that sends the larger values to the left.
RECURSIVE insert_bst_flipped(_, _)
insert_bst_flipped(root, val) ==
    IF root = Nil THEN TreeNode(val, Nil, Nil)
    ELSE IF val > ValOf(root)
    THEN TreeNode(ValOf(root), insert_bst_flipped(LeftOf(root), val), RightOf(root))
    ELSE TreeNode(ValOf(root), LeftOf(root), insert_bst_flipped(RightOf(root), val))

RECURSIVE insert_bst(_, _)
insert_bst(root, val) ==
    IF root = Nil THEN TreeNode(val, Nil, Nil)
    ELSE IF val < ValOf(root)
    THEN TreeNode(ValOf(root), insert_bst(LeftOf(root), val), RightOf(root))
    ELSE TreeNode(ValOf(root), LeftOf(root), insert_bst(RightOf(root), val))

\* The successor search that forgets to walk left: the value of root.right.
leftmost_noloop(t) == ValOf(t)

\* temp = root.right; while temp.left: temp = temp.left; temp.val
RECURSIVE leftmost(_)
leftmost(t) == IF LeftOf(t) = Nil THEN ValOf(t) ELSE leftmost(LeftOf(t))

\* A delete that never descends into the right subtree.
RECURSIVE delete_node_skipright(_, _)
delete_node_skipright(root, key) ==
    IF root = Nil THEN Nil
    ELSE IF key < ValOf(root)
    THEN TreeNode(ValOf(root), delete_node_skipright(LeftOf(root), key), RightOf(root))
    ELSE IF key > ValOf(root)
    THEN root
    ELSE IF LeftOf(root) = Nil THEN RightOf(root)
    ELSE IF RightOf(root) = Nil THEN LeftOf(root)
    ELSE TreeNode(leftmost(RightOf(root)), LeftOf(root),
                  delete_node_skipright(RightOf(root), leftmost(RightOf(root))))

\* A delete that splices the right child in also when there is a left child.
RECURSIVE delete_node_loseleft(_, _)
delete_node_loseleft(root, key) ==
    IF root = Nil THEN Nil
    ELSE IF key < ValOf(root)
    THEN TreeNode(ValOf(root), delete_node_loseleft(LeftOf(root), key), RightOf(root))
    ELSE IF key > ValOf(root)
    THEN TreeNode(ValOf(root), LeftOf(root), delete_node_loseleft(RightOf(root), key))
    ELSE IF RightOf(root) # Nil THEN RightOf(root)
    ELSE LeftOf(root)

\* A delete that copies the successor's value up and leaves the successor's
\* own node in the right subtree.
RECURSIVE delete_node_keepsucc(_, _)
delete_node_keepsucc(root, key) ==
    IF root = Nil THEN Nil
    ELSE IF key < ValOf(root)
    THEN TreeNode(ValOf(root), delete_node_keepsucc(LeftOf(root), key), RightOf(root))
    ELSE IF key > ValOf(root)
    THEN TreeNode(ValOf(root), LeftOf(root), delete_node_keepsucc(RightOf(root), key))
    ELSE IF LeftOf(root) = Nil THEN RightOf(root)
    ELSE IF RightOf(root) = Nil THEN LeftOf(root)
    ELSE TreeNode(leftmost(RightOf(root)), LeftOf(root), RightOf(root))

\* delete_node(root, key): the returned root.  root.val = temp.val and the
\* re-linking of root.left / root.right mutate nodes only this tree owns.
RECURSIVE delete_node(_, _)
delete_node(root, key) ==
    IF root = Nil THEN Nil
    ELSE IF key < ValOf(root)
    THEN TreeNode(ValOf(root), delete_node(LeftOf(root), key), RightOf(root))
    ELSE IF key > ValOf(root)
    THEN TreeNode(ValOf(root), LeftOf(root), delete_node(RightOf(root), key))
    ELSE IF LeftOf(root) = Nil THEN RightOf(root)
    ELSE IF RightOf(root) = Nil THEN LeftOf(root)
    ELSE LET temp == leftmost(RightOf(root))
         IN  TreeNode(temp, LeftOf(root), delete_node(RightOf(root), temp))

BSTInit ==
    /\ tree = Nil
    /\ bins = <<>>
    /\ bonly = TRUE
    /\ blast = [op |-> "none", v |-> 0, pre |-> Nil, fresh |-> TRUE, ins |-> <<>>]

\* root = insert_bst(root, v)
BSTInsert(v) ==
    /\ Size(tree) < MaxNodes
    /\ tree' = insert_bst(tree, v)
    /\ bonly' = (bonly \/ tree = Nil)
    /\ bins' = IF tree = Nil THEN <<v>> ELSE IF bonly THEN Append(bins, v) ELSE bins
    /\ blast' = [op |-> "insert", v |-> v, pre |-> tree,
                 fresh |-> (bonly \/ tree = Nil), ins |-> <<>>]
    /\ BSTFrame

\* root = delete_node(root, v)
BSTDelete(v) ==
    /\ tree' = delete_node(tree, v)
    /\ bonly' = FALSE
    /\ bins' = <<>>
    /\ blast' = [op |-> "delete", v |-> v, pre |-> tree,
                 fresh |-> (bonly \/ tree = Nil),
                 ins |-> IF bonly THEN bins ELSE <<>>]
    /\ BSTFrame

BSTNext ==
    \/ \E v \in Vals : BSTInsert(v)
    \/ \E v \in Vals : BSTDelete(v)

\* --------------------------------------------------------------- LinkedList
\* ListNode objects live in a store addressed by ids; None is the id 0.  An
\* object no longer reachable from head or tail is reclaimed when the call
\* returns, as by the interpreter's reference counting.
DummyVal == 0

ListNode(val, next) == [val |-> val, next |-> next]

\* The id of a newly constructed object: the smallest one not in use.
NewId(ns) == CHOOSE i \in 1..(Cardinality(DOMAIN ns) + 1) :
                /\ i \notin DOMAIN ns
                /\ \A j \in 1..(i - 1) : j \in DOMAIN ns

Alloc(ns, id, node) == [i \in DOMAIN ns \cup {id} |-> IF i = id THEN node ELSE ns[i]]

RECURSIVE ReachFrom(_, _)
ReachFrom(ns, id) == IF id = None THEN {} ELSE {id} \cup ReachFrom(ns, ns[id].next)

Collect(ns, h, t) ==
    LET live == ReachFrom(ns, h) \cup ReachFrom(ns, t)
    IN  [nodes |-> [i \in live |-> ns[i]], head |-> h, tail |-> t]

\* The values met by following next from a node (print_list's order).
RECURSIVE ListVals(_, _)
ListVals(ns, h) == IF h = None THEN <<>> ELSE <<ns[h].val>> \o ListVals(ns, ns[h].next)

insert_front(ns, h, t, val) ==
    LET node == NewId(ns)
        ns1 == Alloc(ns, node, ListNode(val, None))
    IN  IF h = None
        THEN Collect(ns1, node, node)
        ELSE Collect([ns1 EXCEPT ![node].next = h], node, t)

insert_end(ns, h, t, val) ==
    LET node == NewId(ns)
        ns1 == Alloc(ns, node, ListNode(val, None))
    IN  IF t = None
        THEN Collect(ns1, node, node)
        ELSE Collect([ns1 EXCEPT ![t].next = node], h, node)

\* The while loop of delete_val from (prev, cur): the store and tail it leaves.
RECURSIVE delete_loop(_, _, _, _, _)
delete_loop(ns, prev, cur, t, val) ==
    IF cur = None
    THEN [nodes |-> ns, tail |-> t]
    ELSE IF ns[cur].val = val
    THEN [nodes |-> [ns EXCEPT ![prev].next = ns[cur].next],
          tail |-> IF cur = t THEN prev ELSE t]
    ELSE delete_loop(ns, cur, ns[cur].next, t, val)

\* A delete without the sentinel: the scan starts behind the head node.
delete_val_nodummy(ns, h, t, val) ==
    IF h = None
    THEN Collect(ns, h, t)
    ELSE LET r == delete_loop(ns, h, ns[h].next, t, val)
         IN  Collect(r.nodes, h, r.tail)

delete_val(ns, h, t, val) ==
    LET dummy == NewId(ns)
        ns1 == Alloc(ns, dummy, ListNode(DummyVal, h))
        r == delete_loop(ns1, dummy, h, t, val)
    IN  Collect(r.nodes, r.nodes[dummy].next, r.tail)

\* A find whose loop tests cur.next, so the last node is never compared.
RECURSIVE ll_find_skiplast(_, _, _)
ll_find_skiplast(ns, cur, val) ==
    IF cur = None THEN FALSE
    ELSE IF ns[cur].next = None THEN FALSE
    ELSE IF ns[cur].val = val THEN TRUE
    ELSE ll_find_skiplast(ns, ns[cur].next, val)

RECURSIVE ll_find(_, _, _)
ll_find(ns, cur, val) ==
    IF cur = None THEN FALSE
    ELSE IF ns[cur].val = val THEN TRUE
    ELSE ll_find(ns, ns[cur].next, val)

LLInit ==
    /\ nodes = <<>>
    /\ head = None
    /\ tail = None
    /\ llast = [op |-> "none", v |-> 0, pre |-> <<>>, prehead |-> None, pretail |-> None]

LLRecord(op, v) ==
    llast' = [op |-> op, v |-> v, pre |-> ListVals(nodes, head),
              prehead |-> head, pretail |-> tail]

LLApply(r) ==
    /\ nodes' = r.nodes
    /\ head' = r.head
    /\ tail' = r.tail

LLInsertFront(v) ==
    /\ Len(ListVals(nodes, head)) < MaxLen
    /\ LLApply(insert_front(nodes, head, tail, v))
    /\ LLRecord("insert_front", v)
    /\ LLFrame

LLInsertEnd(v) ==
    /\ Len(ListVals(nodes, head)) < MaxLen
    /\ LLApply(insert_end(nodes, head, tail, v))
    /\ LLRecord("insert_end", v)
    /\ LLFrame

LLDeleteVal(v) ==
    /\ LLApply(delete_val(nodes, head, tail, v))
    /\ LLRecord("delete_val", v)
    /\ LLFrame

LLNext ==
    \/ \E v \in ListValues : LLInsertFront(v)
    \/ \E v \in ListValues : LLInsertEnd(v)
    \/ \E v \in ListValues : LLDeleteVal(v)

\* ------------------------------------------------------------- reverse_list
\* A reversal that returns the loop variable head, which is None by then.
reverse_list_returnshead(ns, h) == [nodes |-> ns, head |-> None]

\* The while loop of reverse_list from (prev, head).
RECURSIVE reverse_loop(_, _, _)
reverse_loop(ns, prev, h) ==
    IF h = None
    THEN [nodes |-> ns, head |-> prev]
    ELSE LET nxt == ns[h].next
         IN  reverse_loop([ns EXCEPT ![h].next = prev], h, nxt)

\* reverse_list(head): the returned head and the re-linked nodes.
reverse_list(ns, h) == reverse_loop(ns, None, h)

\* The node ids met by following next from a node.
RECURSIVE ListIds(_, _)
ListIds(ns, h) == IF h = None THEN <<>> ELSE <<h>> \o ListIds(ns, ns[h].next)

\* The chain n1 -> n2 -> ... built node by node from a sequence of values.
ChainOf(s) ==
    [i \in 1..Len(s) |-> ListNode(s[i], IF i < Len(s) THEN i + 1 ELSE None)]

RevIdle ==
    /\ rnodes = <<>>
    /\ rhead = None
    /\ rorig = <<>>
    /\ rcount = 0

\* Every acyclic chain of at most MaxLen nodes, the empty one included.
RevInit ==
    \E s \in SeqsUpTo(Vals, MaxLen) :
        /\ rnodes = ChainOf(s)
        /\ rhead = IF s = <<>> THEN None ELSE 1
        /\ rorig = [i \in 1..Len(s) |-> i]
        /\ rcount = 0

\* head = reverse_list(head)
RevReverse ==
    /\ rcount < MaxRev
    /\ rnodes' = reverse_list(rnodes, rhead).nodes
    /\ rhead' = reverse_list(rnodes, rhead).head
    /\ rcount' = rcount + 1
    /\ UNCHANGED rorig
    /\ RevFrame

RevNext == RevReverse

\* ------------------------------------------------------------ Stack / Queue
\* Each call yields [raised, out, data]: whether it raised, the value it
\* returned (None when it returned None or raised) and the data it leaves.
\* Stack.pop: list.pop() raises IndexError on an empty list.
stack_pop(d) ==
    IF d = <<>>
    THEN [raised |-> TRUE, out |-> None, data |-> d]
    ELSE [raised |-> FALSE, out |-> d[Len(d)], data |-> SubSeq(d, 1, Len(d) - 1)]

\* Stack.peek: self.data[-1] if self.data else None
stack_peek(d) ==
    IF d # <<>>
    THEN [raised |-> FALSE, out |-> d[Len(d)], data |-> d]
    ELSE [raised |-> FALSE, out |-> None, data |-> d]

\* Queue.dequeue: deque.popleft() raises IndexError on an empty deque.
queue_dequeue(d) ==
    IF d = <<>>
    THEN [raised |-> TRUE, out |-> None, data |-> d]
    ELSE [raised |-> FALSE, out |-> d[1], data |-> Tail(d)]

\* Queue.front: self.data[0] if self.data else None
queue_front(d) ==
    IF d # <<>>
    THEN [raised |-> FALSE, out |-> d[1], data |-> d]
    ELSE [raised |-> FALSE, out |-> None, data |-> d]

SQInit ==
    /\ sdata = <<>>
    /\ qdata = <<>>
    /\ sqcall = [op |-> "none", empty |-> TRUE, raised |-> FALSE, out |-> None]

SQRecord(op, wasEmpty, r) ==
    sqcall' = [op |-> op, empty |-> wasEmpty, raised |-> r.raised, out |-> r.out]

StackPush(v) ==
    /\ Len(sdata) < MaxSQLen
    /\ sdata' = Append(sdata, v)
    /\ SQRecord("Stack.push", sdata = <<>>, [raised |-> FALSE, out |-> None])
    /\ UNCHANGED qdata
    /\ SQFrame

StackPop ==
    /\ sdata' = stack_pop(sdata).data
    /\ SQRecord("Stack.pop", sdata = <<>>, stack_pop(sdata))
    /\ UNCHANGED qdata
    /\ SQFrame

StackPeek ==
    /\ sdata' = stack_peek(sdata).data
    /\ SQRecord("Stack.peek", sdata = <<>>, stack_peek(sdata))
    /\ UNCHANGED qdata
    /\ SQFrame

QueueEnqueue(v) ==
    /\ Len(qdata) < MaxSQLen
    /\ qdata' = Append(qdata, v)
    /\ SQRecord("Queue.enqueue", qdata = <<>>, [raised |-> FALSE, out |-> None])
    /\ UNCHANGED sdata
    /\ SQFrame

QueueDequeue ==
    /\ qdata' = queue_dequeue(qdata).data
    /\ SQRecord("Queue.dequeue", qdata = <<>>, queue_dequeue(qdata))
    /\ UNCHANGED sdata
    /\ SQFrame

QueueFront ==
    /\ qdata' = queue_front(qdata).data
    /\ SQRecord("Queue.front", qdata = <<>>, queue_front(qdata))
    /\ UNCHANGED sdata
    /\ SQFrame

SQNext ==
    \/ \E v \in ListValues : StackPush(v)
    \/ StackPop
    \/ StackPeek
    \/ \E v \in ListValues : QueueEnqueue(v)
    \/ QueueDequeue
    \/ QueueFront

\* ---------------------------------------------------------------- heap_sort
\* heapq is the standard library's module, not part of these sources; its two
\* functions follow the description of the heap operations: heapify sifts
\* down from the last parent to the root, heappop removes the root by moving
\* the last element there and sifting it down (IndexError when empty).
RECURSIVE heapq_siftdown(_, _)
heapq_siftdown(h, i) ==
    LET n == Len(h)
        left == 2 * i + 1
        right == 2 * i + 2
    IN  IF left >= n THEN h
        ELSE LET child == IF right < n /\ h[right + 1] < h[left + 1] THEN right ELSE left
             IN  IF h[child + 1] < h[i + 1]
                 THEN heapq_siftdown(Swap(h, i, child), child)
                 ELSE h

RECURSIVE heapify_from(_, _)
heapify_from(h, i) == IF i < 0 THEN h ELSE heapify_from(heapq_siftdown(h, i), i - 1)

heapify(arr) == heapify_from(arr, (Len(arr) \div 2) - 1)

heappop(h) ==
    IF h = <<>>
    THEN [raised |-> TRUE, out |-> None, heap |-> h]
    ELSE LET last == h[Len(h)]
             shrunk == SubSeq(h, 1, Len(h) - 1)
         IN  IF shrunk = <<>>
             THEN [raised |-> FALSE, out |-> last, heap |-> <<>>]
             ELSE [raised |-> FALSE, out |-> h[1],
                   heap |-> heapq_siftdown([shrunk EXCEPT ![1] = last], 0)]

\* The list comprehension: k more heappop calls on arr, appended to res.
RECURSIVE heap_sort_pops(_, _, _)
heap_sort_pops(arr, k, res) ==
    IF k = 0 THEN [raised |-> FALSE, out |-> res, arr |-> arr]
    ELSE LET r == heappop(arr)
         IN  IF r.raised
             THEN [raised |-> TRUE, out |-> <<>>, arr |-> arr]
             ELSE heap_sort_pops(r.heap, k - 1, Append(res, r.out))

\* A heap_sort that pops without heapifying first.
heap_sort_noheapify(arr) == heap_sort_pops(arr, Len(arr), <<>>)

\* heap_sort(arr): range(len(arr)) is evaluated once, after heapify.
heap_sort(arr) == heap_sort_pops(heapify(arr), Len(heapify(arr)), <<>>)

SortIdle ==
    /\ sarr = <<>>
    /\ sres = [raised |-> FALSE, out |-> <<>>]
    /\ sinput = <<>>
    /\ scalls = 0

\* Every list of at most MaxSortLen values, the empty one included.
SortInit ==
    /\ sarr \in SeqsUpTo(SortVals, MaxSortLen)
    /\ sres = [raised |-> FALSE, out |-> <<>>]
    /\ sinput = sarr
    /\ scalls = 0

\* res = heap_sort(arr)
SortCall ==
    /\ scalls = 0
    /\ sarr' = heap_sort(sarr).arr
    /\ sres' = [raised |-> heap_sort(sarr).raised, out |-> heap_sort(sarr).out]
    /\ sinput' = sarr
    /\ scalls' = scalls + 1
    /\ SortFrame

SortNext == SortCall

\* ---------------------------------------------------- sliding window maximum
\* max_sliding_window (03_sliding_window.py), max_sliding_window
\* (09_misc_algos.py) and sliding_window_max (05_queues.py), called one after
\* the other on the same nums and k.  The deque holds indices counted from 0.
At(nums, i) == nums[i + 1]

\* while dq and dq[0] <= i - k: dq.popleft()
RECURSIVE pop_stale(_, _)
pop_stale(dq, bound) ==
    IF dq # <<>> /\ Head(dq) <= bound THEN pop_stale(Tail(dq), bound) ELSE dq

\* while q and nums[q[-1]] < num: q.pop()
RECURSIVE pop_smaller(_, _, _)
pop_smaller(nums, dq, num) ==
    IF dq # <<>> /\ At(nums, dq[Len(dq)]) < num
    THEN pop_smaller(nums, SubSeq(dq, 1, Len(dq) - 1), num)
    ELSE dq

\* if i >= k - 1: res.append(nums[q[0]])
read_front(nums, k, i, dq, res) ==
    IF i >= k - 1
    THEN IF dq = <<>>
         THEN [dq |-> dq, res |-> res, raised |-> TRUE]
         ELSE [dq |-> dq, res |-> Append(res, At(nums, Head(dq))), raised |-> FALSE]
    ELSE [dq |-> dq, res |-> res, raised |-> FALSE]

\* One pass of the for loop of max_sliding_window in 03_sliding_window.py.
max_sliding_window_sw_iter(nums, k, i, dq, res) ==
    LET d1 == pop_stale(dq, i - k)
        d2 == Append(pop_smaller(nums, d1, At(nums, i)), i)
    IN  read_front(nums, k, i, d2, res)

\* One pass of the for loop of max_sliding_window in 09_misc_algos.py.
max_sliding_window_misc_iter(nums, k, i, dq, res) ==
    LET d1 == Append(pop_smaller(nums, dq, At(nums, i)), i)
        d2 == IF Head(d1) <= i - k THEN Tail(d1) ELSE d1
    IN  read_front(nums, k, i, d2, res)

\* A sliding_window_max that never drops the index that left the window.
sliding_window_max_iter_nopop(nums, k, i, dq, res) ==
    read_front(nums, k, i, Append(pop_smaller(nums, dq, At(nums, i)), i), res)

\* One pass of the for loop of sliding_window_max in 05_queues.py.
sliding_window_max_iter(nums, k, i, dq, res) ==
    LET d1 == Append(pop_smaller(nums, dq, At(nums, i)), i)
        d2 == IF Head(d1) = i - k THEN Tail(d1) ELSE d1
    IN  read_front(nums, k, i, d2, res)

WinFns == <<"sw", "misc", "queue">>
WinFnSet == {WinFns[n] : n \in 1..Len(WinFns)}

win_iter(fn, nums, k, i, dq, res) ==
    CASE fn = "sw"    -> max_sliding_window_sw_iter(nums, k, i, dq, res)
      [] fn = "misc"  -> max_sliding_window_misc_iter(nums, k, i, dq, res)
      [] fn = "queue" -> sliding_window_max_iter(nums, k, i, dq, res)

WinNoResults == [f \in WinFnSet |-> <<>>]

WinIdle ==
    /\ wnums = <<>>
    /\ wk = 1
    /\ wfn = "idle"
    /\ wi = 0
    /\ wdq = <<>>
    /\ wres = <<>>
    /\ wraised = FALSE
    /\ wout = WinNoResults

\* Every non-empty list of at most MaxWinLen values and every k in 1..len(nums);
\* the first function has been entered: dq = deque(), res = [].
WinInit ==
    /\ wnums \in SeqsUpTo(WinVals, MaxWinLen) \ {<<>>}
    /\ wk \in 1..MaxWinLen
    /\ wk <= Len(wnums)
    /\ wfn = WinFns[1]
    /\ wi = 0
    /\ wdq = <<>>
    /\ wres = <<>>
    /\ wraised = FALSE
    /\ wout = WinNoResults

\* One pass of the running function's for loop.
WinStep ==
    /\ wfn \in WinFnSet
    /\ ~wraised
    /\ wi < Len(wnums)
    /\ LET r == win_iter(wfn, wnums, wk, wi, wdq, wres)
       IN  /\ wdq' = r.dq
           /\ wres' = r.res
           /\ wraised' = r.raised
    /\ wi' = wi + 1
    /\ UNCHANGED <<wnums, wk, wfn, wout>>
    /\ WinFrame

\* return res, and the caller enters the next function.
WinReturn ==
    /\ wfn \in WinFnSet
    /\ ~wraised
    /\ wi = Len(wnums)
    /\ wout' = [wout EXCEPT ![wfn] = wres]
    /\ wfn' = IF wfn = WinFns[1] THEN WinFns[2]
              ELSE IF wfn = WinFns[2] THEN WinFns[3]
              ELSE "done"
    /\ wi' = 0
    /\ wdq' = <<>>
    /\ wres' = <<>>
    /\ UNCHANGED <<wnums, wk, wraised>>
    /\ WinFrame

WinNext ==
    \/ WinStep
    \/ WinReturn

\* ------------------------------------------------------------ binary search
\* binary_search, lower_bound and upper_bound of 01_sorting_searching.py;
\* binary_search and lower_bound of 09_misc_algos.py are the same statements
\* with nums renamed arr.  Indices are the code's (from 0).
NotFound == 0 - 1

InRange(nums, mid) == mid >= 0 /\ mid < Len(nums)

SearchState(left, right, done, ret, oob) ==
    [left |-> left, right |-> right, done |-> done, ret |-> ret, oob |-> oob]

\* A binary_search that moves left to mid, not past it.
binary_search_pass_nomove(nums, target, left, right) ==
    IF left <= right
    THEN LET mid == (left + right) \div 2
         IN  IF ~InRange(nums, mid) THEN SearchState(left, right, TRUE, NotFound, TRUE)
             ELSE IF At(nums, mid) = target THEN SearchState(left, right, TRUE, mid, FALSE)
             ELSE IF At(nums, mid) < target THEN SearchState(mid, right, FALSE, NotFound, FALSE)
             ELSE SearchState(left, mid - 1, FALSE, NotFound, FALSE)
    ELSE SearchState(left, right, TRUE, NotFound, FALSE)

\* binary_search: the loop test and one pass of the body, or the final return.
binary_search_pass(nums, target, left, right) ==
    IF left <= right
    THEN LET mid == (left + right) \div 2
         IN  IF ~InRange(nums, mid) THEN SearchState(left, right, TRUE, NotFound, TRUE)
             ELSE IF At(nums, mid) = target THEN SearchState(left, right, TRUE, mid, FALSE)
             ELSE IF At(nums, mid) < target THEN SearchState(mid + 1, right, FALSE, NotFound, FALSE)
             ELSE SearchState(left, mid - 1, FALSE, NotFound, FALSE)
    ELSE SearchState(left, right, TRUE, NotFound, FALSE)

\* A lower_bound that also moves right past elements equal to the target.
lower_bound_pass_le(nums, target, left, right) ==
    IF left < right
    THEN LET mid == (left + right) \div 2
         IN  IF ~InRange(nums, mid) THEN SearchState(left, right, TRUE, left, TRUE)
             ELSE IF At(nums, mid) <= target THEN SearchState(mid + 1, right, FALSE, left, FALSE)
             ELSE SearchState(left, mid, FALSE, left, FALSE)
    ELSE SearchState(left, right, TRUE, left, FALSE)

\* lower_bound: the loop test and one pass of the body, or the final return.
lower_bound_pass(nums, target, left, right) ==
    IF left < right
    THEN LET mid == (left + right) \div 2
         IN  IF ~InRange(nums, mid) THEN SearchState(left, right, TRUE, left, TRUE)
             ELSE IF At(nums, mid) < target THEN SearchState(mid + 1, right, FALSE, left, FALSE)
             ELSE SearchState(left, mid, FALSE, left, FALSE)
    ELSE SearchState(left, right, TRUE, left, FALSE)

\* upper_bound: the loop test and one pass of the body, or the final return.
upper_bound_pass(nums, target, left, right) ==
    IF left < right
    THEN LET mid == (left + right) \div 2
         IN  IF ~InRange(nums, mid) THEN SearchState(left, right, TRUE, left, TRUE)
             ELSE IF At(nums, mid) <= target THEN SearchState(mid + 1, right, FALSE, left, FALSE)
             ELSE SearchState(left, mid, FALSE, left, FALSE)
    ELSE SearchState(left, right, TRUE, left, FALSE)

SearchIdle ==
    /\ bnums = <<>>
    /\ btarget = 0
    /\ bfn = "idle"
    /\ bleft = 0
    /\ bright = 0
    /\ bpc = "done"
    /\ bret = NotFound
    /\ boob = FALSE
    /\ bsteps = 0
    /\ bwidth = 0

\* Every sorted list of at most MaxSearchLen values, the empty one included,
\* every target from below the values to above them, and each function
\* entered: left, right = 0, len(nums) - 1   or   left, right = 0, len(nums).
SearchInit ==
    /\ bnums \in {s \in SeqsUpTo(SearchVals, MaxSearchLen) : IsNonDecreasing(s)}
    /\ btarget \in 0..(MaxSearchVal + 1)
    /\ bfn \in {"binary_search", "lower_bound", "upper_bound"}
    /\ bleft = 0
    /\ bright = IF bfn = "binary_search" THEN Len(bnums) - 1 ELSE Len(bnums)
    /\ bpc = "loop"
    /\ bret = NotFound
    /\ boob = FALSE
    /\ bsteps = 0
    /\ bwidth = bright - bleft

SearchApply(r) ==
    /\ bleft' = r.left
    /\ bright' = r.right
    /\ bpc' = IF r.done THEN "done" ELSE "loop"
    /\ bret' = IF r.done THEN r.ret ELSE bret
    /\ boob' = r.oob
    /\ bsteps' = bsteps + 1
    /\ bwidth' = bright - bleft
    /\ UNCHANGED <<bnums, btarget, bfn>>
    /\ SearchFrame

BinarySearchPass ==
    /\ bfn = "binary_search"
    /\ bpc = "loop"
    /\ bsteps <= MaxSearchLen + 1
    /\ SearchApply(binary_search_pass(bnums, btarget, bleft, bright))

LowerBoundPass ==
    /\ bfn = "lower_bound"
    /\ bpc = "loop"
    /\ bsteps <= MaxSearchLen + 1
    /\ SearchApply(lower_bound_pass(bnums, btarget, bleft, bright))

UpperBoundPass ==
    /\ bfn = "upper_bound"
    /\ bpc = "loop"
    /\ bsteps <= MaxSearchLen + 1
    /\ SearchApply(upper_bound_pass(bnums, btarget, bleft, bright))

SearchNext ==
    \/ BinarySearchPass
    \/ LowerBoundPass
    \/ UpperBoundPass

\* ----------------------------------------------------------------- MinStack
\* A push that records a new minimum only when it is strictly smaller.
ms_push_strict(st, st2, val) ==
    [stack |-> Append(st, val),
     stack2 |-> IF st2 = <<>> \/ val < st2[Len(st2)] THEN Append(st2, val) ELSE st2]

ms_push(st, st2, val) ==
    [stack |-> Append(st, val),
     stack2 |-> IF st2 = <<>> \/ val <= st2[Len(st2)] THEN Append(st2, val) ELSE st2]

\* pop: self.stack[-1] (or self.stack2[-1]) of an empty list raises IndexError
\* before anything is removed.
ms_pop(st, st2) ==
    IF st = <<>> \/ st2 = <<>>
    THEN [raised |-> TRUE, stack |-> st, stack2 |-> st2]
    ELSE [raised |-> FALSE,
          stack |-> SubSeq(st, 1, Len(st) - 1),
          stack2 |-> IF st[Len(st)] = st2[Len(st2)]
                     THEN SubSeq(st2, 1, Len(st2) - 1)
                     ELSE st2]

ms_top(st) ==
    IF st = <<>> THEN [raised |-> TRUE, out |-> None]
    ELSE [raised |-> FALSE, out |-> st[Len(st)]]

ms_getMin(st2) ==
    IF st2 = <<>> THEN [raised |-> TRUE, out |-> None]
    ELSE [raised |-> FALSE, out |-> st2[Len(st2)]]

MSInit ==
    /\ mstack = <<>>
    /\ mstack2 = <<>>
    /\ mcall = [op |-> "none", v |-> None, raised |-> FALSE]

MSPush(v) ==
    /\ Len(mstack) < MaxMinStack
    /\ mstack' = ms_push(mstack, mstack2, v).stack
    /\ mstack2' = ms_push(mstack, mstack2, v).stack2
    /\ mcall' = [op |-> "push", v |-> v, raised |-> FALSE]
    /\ MSFrame

MSPop ==
    /\ mstack' = ms_pop(mstack, mstack2).stack
    /\ mstack2' = ms_pop(mstack, mstack2).stack2
    /\ mcall' = [op |-> "pop",
                 v |-> IF mstack = <<>> THEN None ELSE mstack[Len(mstack)],
                 raised |-> ms_pop(mstack, mstack2).raised]
    /\ MSFrame

MSNext ==
    \/ \E v \in Vals : MSPush(v)
    \/ MSPop

\* ------------------------------------------------------- encode / decode
\* Strings are sequences of one-character strings.
delimiter == <<"(", "*", "&", "^", "%", "$", "#", "@", "!", "|", ":", "L">>
EMPTY_LIST == <<"<", "E", "M", "P", "T", "Y", "_", "L", "I", "S", "T", ">">>
EMPTY_STRING_LIST ==
    <<"<", "E", "M", "P", "T", "Y", "_", "S", "T", "R", "I", "N", "G", "_", "L", "I", "S", "T", ">">>

\* sep.join(strs)
RECURSIVE str_join(_, _)
str_join(sep, strs) ==
    IF strs = <<>> THEN <<>>
    ELSE IF Len(strs) = 1 THEN strs[1]
    ELSE strs[1] \o sep \o str_join(sep, Tail(strs))

\* s.find(sep) counted from 1; 0 when sep does not occur.
str_find(s, sep) ==
    LET hits == {i \in 1..(Len(s) - Len(sep) + 1) : SubSeq(s, i, i + Len(sep) - 1) = sep}
    IN  IF hits = {} THEN 0 ELSE CHOOSE i \in hits : \A j \in hits : i <= j

\* s.split(sep): cut at each occurrence of sep, scanning from the left.
RECURSIVE str_split(_, _)
str_split(s, sep) ==
    LET i == str_find(s, sep)
    IN  IF i = 0 THEN <<s>>
        ELSE <<SubSeq(s, 1, i - 1)>> \o str_split(SubSeq(s, i + Len(sep), Len(s)), sep)

encode(strs) ==
    IF strs = << <<>> >> THEN EMPTY_STRING_LIST
    ELSE IF strs = <<>> THEN EMPTY_LIST
    ELSE str_join(delimiter, strs)

decode(s) ==
    IF s = EMPTY_STRING_LIST THEN << <<>> >>
    ELSE IF s = EMPTY_LIST THEN <<>>
    ELSE str_split(s, delimiter)

\* The strings tried: up to MaxChunks pieces, each a letter, the delimiter
\* text, or one of the two special tokens.
Chunks == {<<"a">>, delimiter, EMPTY_LIST, EMPTY_STRING_LIST}

RECURSIVE Flatten(_)
Flatten(cs) == IF cs = <<>> THEN <<>> ELSE Head(cs) \o Flatten(Tail(cs))

CodecStrings == {Flatten(cs) : cs \in SeqsUpTo(Chunks, MaxChunks)}

CodecIdle ==
    /\ cstrs = <<>>
    /\ cenc = <<>>
    /\ cdec = <<>>
    /\ cpc = "idle"

CodecInit ==
    /\ cstrs \in SeqsUpTo(CodecStrings, MaxStrs)
    /\ cenc = <<>>
    /\ cdec = <<>>
    /\ cpc = "start"

\* s = Solution().encode(strs)
CodecEncode ==
    /\ cpc = "start"
    /\ cenc' = encode(cstrs)
    /\ cpc' = "encoded"
    /\ UNCHANGED <<cstrs, cdec>>
    /\ CodecFrame

\* out = Solution().decode(s)
CodecDecode ==
    /\ cpc = "encoded"
    /\ cdec' = decode(cenc)
    /\ cpc' = "decoded"
    /\ UNCHANGED <<cstrs, cenc>>
    /\ CodecFrame

CodecNext ==
    \/ CodecEncode
    \/ CodecDecode

\* ---------------------------------------------------------------- has_cycle
\* node.next in a chain of n nodes whose last node points at back.
chain_next(n, back, id) == IF id < n THEN id + 1 ELSE back

CycleState(slow, fast, done, ret) ==
    [slow |-> slow, fast |-> fast, done |-> done, ret |-> ret]

\* A has_cycle whose fast pointer moves one node per pass, like slow.
has_cycle_pass_samepace(n, back, slow, fast) ==
    IF fast # None /\ chain_next(n, back, fast) # None
    THEN LET s1 == chain_next(n, back, slow)
             f1 == chain_next(n, back, fast)
         IN  IF s1 = f1
             THEN CycleState(s1, f1, TRUE, TRUE)
             ELSE CycleState(s1, f1, FALSE, FALSE)
    ELSE CycleState(slow, fast, TRUE, FALSE)

\* has_cycle: the while test and one pass of the body, or the final return.
has_cycle_pass(n, back, slow, fast) ==
    IF fast # None /\ chain_next(n, back, fast) # None
    THEN LET s1 == chain_next(n, back, slow)
             f1 == chain_next(n, back, chain_next(n, back, fast))
         IN  IF s1 = f1
             THEN CycleState(s1, f1, TRUE, TRUE)
             ELSE CycleState(s1, f1, FALSE, FALSE)
    ELSE CycleState(slow, fast, TRUE, FALSE)

CycleIdle ==
    /\ cnodes = 0
    /\ cback = None
    /\ cslow = None
    /\ cfast = None
    /\ chpc = "idle"
    /\ cret = FALSE
    /\ cpasses = 0

\* Every chain of at most MaxChain nodes, the empty one included, whose last
\* node points at None or back at any node of the chain (itself included);
\* has_cycle(head) is entered: slow = fast = head.
CycleInit ==
    /\ cnodes \in 0..MaxChain
    /\ cback \in 0..cnodes
    /\ cslow = (IF cnodes = 0 THEN None ELSE 1)
    /\ cfast = cslow
    /\ chpc = "loop"
    /\ cret = FALSE
    /\ cpasses = 0

HasCyclePass ==
    /\ chpc = "loop"
    /\ cpasses <= MaxChain + 1
    /\ LET r == has_cycle_pass(cnodes, cback, cslow, cfast)
       IN  /\ cslow' = r.slow
           /\ cfast' = r.fast
           /\ chpc' = IF r.done THEN "done" ELSE "loop"
           /\ cret' = r.ret
    /\ cpasses' = cpasses + 1
    /\ UNCHANGED <<cnodes, cback>>
    /\ CycleFrame

CycleNext == HasCyclePass

\* ------------------------------------------------------------ specifications
\* The containers as constructed.
Containers ==
    /\ HeapInit
    /\ UFInit
    /\ BSTInit
    /\ LLInit
    /\ SQInit
    /\ MSInit

Init ==
    /\ Containers
    /\ RevIdle
    /\ SortIdle
    /\ WinIdle
    /\ SearchIdle
    /\ CodecIdle
    /\ CycleIdle

InitRev ==
    /\ Containers
    /\ RevInit
    /\ SortIdle
    /\ WinIdle
    /\ SearchIdle
    /\ CodecIdle
    /\ CycleIdle

InitSort ==
    /\ Containers
    /\ RevIdle
    /\ SortInit
    /\ WinIdle
    /\ SearchIdle
    /\ CodecIdle
    /\ CycleIdle

InitWin ==
    /\ Containers
    /\ RevIdle
    /\ SortIdle
    /\ WinInit
    /\ SearchIdle
    /\ CodecIdle
    /\ CycleIdle

InitSearch ==
    /\ Containers
    /\ RevIdle
    /\ SortIdle
    /\ WinIdle
    /\ SearchInit
    /\ CodecIdle
    /\ CycleIdle

InitCodec ==
    /\ Containers
    /\ RevIdle
    /\ SortIdle
    /\ WinIdle
    /\ SearchIdle
    /\ CodecInit
    /\ CycleIdle

InitCycle ==
    /\ Containers
    /\ RevIdle
    /\ SortIdle
    /\ WinIdle
    /\ SearchIdle
    /\ CodecIdle
    /\ CycleInit

SpecHeap == Init /\ [][HeapNext]_vars
SpecUF == Init /\ [][UFNext]_vars
SpecBST == Init /\ [][BSTNext]_vars
SpecLL == Init /\ [][LLNext]_vars
SpecRev == InitRev /\ [][RevNext]_vars
SpecSQ == Init /\ [][SQNext]_vars
SpecSort == InitSort /\ [][SortNext]_vars
SpecWin == InitWin /\ [][WinNext]_vars
SpecSearch == InitSearch /\ [][SearchNext]_vars
SpecMS == Init /\ [][MSNext]_vars
SpecCodec == InitCodec /\ [][CodecNext]_vars
SpecCycle == InitCycle /\ [][CycleNext]_vars

\* ------------------------------------------------------------------- claims
\* C1: values pushed onto an empty heap and then popped until the heap is
\* empty come out in non-decreasing order: the pops are the sorted pushes.
C1_PopsAreSortedPushes ==
    (heap = <<>> /\ ~hmixed) => hout = SortedCopy(hin)

C1_Witness ==
    /\ heap = <<>>
    /\ ~hmixed
    /\ hin = <<3, 1, 2, 1, 2>>
    /\ hout = <<1, 1, 2, 2, 3>>

\* C2: after any sequence of push and pop the backing array is a min-heap:
\* every index i > 0 satisfies heap[(i-1)//2] <= heap[i].
C2_HeapInvariant ==
    \A i \in 1..(Len(heap) - 1) : heap[((i - 1) \div 2) + 1] <= heap[i + 1]

C2_Witness ==
    /\ hmixed
    /\ Len(hout) >= 2
    /\ heap = <<1, 3, 2>>

\* C3: find(a) == find(b) exactly when a and b are connected by the
\* reflexive-symmetric-transitive closure of the pairs passed to union so far.
SameSet(a, b) ==
    LET fa == find(parent, a)
        fb == find(fa.p, b)
    IN  fa.r = fb.r

C3_FindIffConnected ==
    \A a, b \in Elems : SameSet(a, b) <=> (<<a, b>> \in conn)

\* A tree of depth two (3 -> 2 -> 0), found equal across it, and elements
\* outside it that are not connected to it.
C3_Witness ==
    /\ \E a, b, c \in Elems :
          /\ a # b /\ b # c /\ a # c
          /\ parent[a] = b /\ parent[b] = c /\ parent[c] = c
          /\ SameSet(a, c)
    /\ \E a, b \in Elems : ~SameSet(a, b) /\ <<a, b>> \notin conn

SeqRange(s) == {s[i] : i \in 1..Len(s)}
Count(s, v) == Cardinality({i \in 1..Len(s) : s[i] = v})

\* C4: for a tree built from empty by insert_bst calls only (duplicates
\* allowed), the in-order traversal is non-decreasing and visits exactly the
\* multiset of inserted values.
C4_InorderIsSortedInserts ==
    bonly => /\ IsNonDecreasing(inorder(tree))
             /\ inorder(tree) = SortedCopy(bins)

C4_Witness ==
    /\ bonly
    /\ bins = <<2, 3, 1, 2>>
    /\ inorder(tree) = <<1, 2, 2, 3>>

\* C5 as stated: for a tree built by insert_bst calls only, after
\* root = delete_node(root, v), search_bst(root, v) is False.
C5_DeletedNotFound_Original ==
    (blast.op = "delete" /\ blast.fresh) => ~search_bst(tree, blast.v)

\* C5 amended: for a tree built by insert_bst calls only in which v was
\* inserted at most once, after root = delete_node(root, v),
\* search_bst(root, v) is False; when v was inserted k >= 2 times, k - 1
\* copies remain and search_bst(root, v) is True.
C5_DeletedNotFound ==
    (blast.op = "delete" /\ blast.fresh) =>
        /\ Count(blast.ins, blast.v) <= 1 => ~search_bst(tree, blast.v)
        /\ Count(blast.ins, blast.v) >= 2 =>
              /\ search_bst(tree, blast.v)
              /\ Count(inorder(tree), blast.v) = Count(blast.ins, blast.v) - 1

\* The deleted value sits once in the tree, at a node with two children.
C5_Witness ==
    /\ blast.op = "delete"
    /\ blast.fresh
    /\ blast.v = 2
    /\ blast.ins = <<2, 1, 3, 3>>
    /\ ~search_bst(tree, 2)

\* C6: after root = delete_node(root, v) every other value w # v is still
\* found by search_bst: every value the tree held before the call and, for a
\* tree built by insert_bst calls only, every inserted value.
C6_OthersStillFound ==
    blast.op = "delete" =>
        /\ \A w \in SeqRange(inorder(blast.pre)) \ {blast.v} : search_bst(tree, w)
        /\ blast.fresh => \A w \in SeqRange(blast.ins) \ {blast.v} : search_bst(tree, w)

\* A two-children deletion whose successor is not the right child itself.
C6_Witness ==
    /\ blast.op = "delete"
    /\ blast.fresh
    /\ blast.v = 1
    /\ blast.ins = <<1, 3, 2, 1>>
    /\ blast.pre = TreeNode(1, Nil, TreeNode(3, TreeNode(2, TreeNode(1, Nil, Nil), Nil), Nil))
    /\ search_bst(tree, 2) /\ search_bst(tree, 3)

\* C7: after any interleaving of insert_bst and delete_node every node has
\* only smaller values in its left subtree and only greater-or-equal values
\* in its right subtree.
RECURSIVE IsBST(_)
IsBST(t) ==
    \/ t = Nil
    \/ /\ \A w \in SeqRange(inorder(LeftOf(t))) : w < ValOf(t)
       /\ \A w \in SeqRange(inorder(RightOf(t))) : w >= ValOf(t)
       /\ IsBST(LeftOf(t))
       /\ IsBST(RightOf(t))

C7_BSTOrdering == IsBST(tree)

\* A two-children deletion, after an earlier deletion, whose successor had to
\* be searched for below the right child.
C7_Witness ==
    /\ blast.op = "delete"
    /\ ~blast.fresh
    /\ blast.v = 2
    /\ blast.pre = TreeNode(2, TreeNode(1, Nil, Nil), TreeNode(3, TreeNode(2, Nil, Nil), Nil))
    /\ tree = TreeNode(2, TreeNode(1, Nil, Nil), TreeNode(3, Nil, Nil))

\* C8: after any sequence of insert_front, insert_end and delete_val, head and
\* tail are both None, or tail is the last node reachable from head and its
\* next is None.
RECURSIVE LastNode(_, _)
LastNode(ns, h) == IF ns[h].next = None THEN h ELSE LastNode(ns, ns[h].next)

C8_HeadTailConsistent ==
    \/ head = None /\ tail = None
    \/ /\ head # None
       /\ tail # None
       /\ tail = LastNode(nodes, head)
       /\ nodes[tail].next = None

\* C9: in every reachable state insert_end(v) appends v to the values
\* reachable from head, insert_front(v) prepends it, and find(v) is True
\* afterwards.
C9_InsertsExtendList ==
    /\ llast.op = "insert_end" =>
          /\ ListVals(nodes, head) = Append(llast.pre, llast.v)
          /\ ll_find(nodes, head, llast.v)
    /\ llast.op = "insert_front" =>
          /\ ListVals(nodes, head) = <<llast.v>> \o llast.pre
          /\ ll_find(nodes, head, llast.v)

\* C10: delete_val(v) removes exactly the first node holding v and keeps the
\* other values in order; when no node holds v the values, head and tail are
\* unchanged.
RECURSIVE RemoveFirst(_, _)
RemoveFirst(s, v) ==
    IF s = <<>> THEN <<>>
    ELSE IF Head(s) = v THEN Tail(s)
    ELSE <<Head(s)>> \o RemoveFirst(Tail(s), v)

C10_DeleteFirstOccurrence ==
    llast.op = "delete_val" =>
        /\ ListVals(nodes, head) = RemoveFirst(llast.pre, llast.v)
        /\ llast.v \notin SeqRange(llast.pre) =>
              /\ ListVals(nodes, head) = llast.pre
              /\ head = llast.prehead
              /\ tail = llast.pretail

C10_Witness ==
    /\ llast.op = "delete_val"
    /\ llast.v = 2
    /\ llast.pre = <<1, 2, 1, 2>>
    /\ ListVals(nodes, head) = <<1, 1, 2>>
    /\ tail = llast.pretail

\* C11: one reverse_list yields the values of the chain in reverse order on
\* the same nodes; reversing twice yields the original sequence of values
\* (empty and single-node chains included).
OrigVals == [i \in 1..Len(rorig) |-> rnodes[rorig[i]].val]

C11_ReverseInvolution ==
    /\ DOMAIN rnodes = SeqRange(rorig)
    /\ rcount % 2 = 1 =>
          /\ ListIds(rnodes, rhead) = Reverse(rorig)
          /\ ListVals(rnodes, rhead) = Reverse(OrigVals)
    /\ rcount % 2 = 0 =>
          /\ ListIds(rnodes, rhead) = rorig
          /\ ListVals(rnodes, rhead) = OrigVals
          /\ rnodes = ChainOf(OrigVals)

C11_Witness ==
    /\ rcount = 2
    /\ ListVals(rnodes, rhead) = <<1, 2, 3, 3>>
    /\ ListIds(rnodes, rhead) = <<1, 2, 3, 4>>

\* C12: pop on an empty heap raises an error instead of returning a value and
\* leaves the heap empty; the next push then yields the one-element heap a
\* fresh heap would hold, and the next pop raises again.
C12_PopEmptyRaises ==
    /\ [](hcall.raised => (hcall.op = "pop" /\ hcall.out = None /\ heap = <<>>))
    /\ [][(hcall'.op = "pop" /\ heap = <<>>) => (hcall'.raised /\ heap' = <<>>)]_vars
    /\ [][(hcall.raised /\ hcall'.op = "push") =>
              (Len(heap') = 1 /\ heap' = hin' /\ pop(heap').out = heap'[1])]_vars

\* pop raised on a heap that had been filled and drained before.
C12_Witness ==
    /\ hcall.raised
    /\ heap = <<>>
    /\ Len(hout) = 3

\* C20: in any interleaving, pop on a non-empty heap returns the minimum of
\* the stored values and removes exactly one occurrence of it, and push(v)
\* adds exactly one occurrence of v; nothing else is lost, duplicated or
\* altered.
SeqMin(s) == CHOOSE m \in SeqRange(s) : \A w \in SeqRange(s) : m <= w

C20_MultisetStep ==
    [][/\ hcall'.op = "push" =>
            \E v \in Vals :
                /\ hin' = IF heap = <<>> THEN <<v>> ELSE Append(hin, v)
                /\ \A w \in Vals : Count(heap', w) = Count(heap, w) + (IF w = v THEN 1 ELSE 0)
                /\ Len(heap') = Len(heap) + 1
       /\ (hcall'.op = "pop" /\ heap # <<>>) =>
            /\ ~hcall'.raised
            /\ hcall'.out = SeqMin(heap)
            /\ \A w \in Vals :
                  Count(heap', w) = Count(heap, w) - (IF w = hcall'.out THEN 1 ELSE 0)
            /\ Len(heap') = Len(heap) - 1
      ]_vars

\* A pop, after pushes and pops were mixed, that left a second copy of the
\* returned minimum in the heap.
C20_Witness ==
    /\ hcall.op = "pop"
    /\ ~hcall.raised
    /\ hmixed
    /\ Len(heap) >= 3
    /\ heap[1] = hcall.out

\* C13: popping or peeking an empty Stack or Queue (Stack.pop, Stack.peek,
\* Queue.dequeue, Queue.front) is reported as an error and never returns a
\* sentinel such as None.
C13_EmptyAccessRaises ==
    (sqcall.op \in {"Stack.pop", "Stack.peek", "Queue.dequeue", "Queue.front"}
        /\ sqcall.empty) => sqcall.raised

\* C14: union(x, y) returns False exactly when x and y were in the same set
\* before the call, and then the partition into sets and every rank are
\* unchanged; it returns True exactly when it merges two distinct sets, and
\* then the number of sets drops by one.  Stated of the call union(x, y) made
\* in any reachable state, for every x and y.
\* The set an element belongs to is named by the root its parent links lead to.
RECURSIVE RootOf(_, _)
RootOf(p, e) == IF p[e] = e THEN e ELSE RootOf(p, p[e])
RootsOf(p) == [e \in Elems |-> RootOf(p, e)]
NumSets(roots) == Cardinality({roots[e] : e \in Elems})

C14_UnionResult ==
    LET r0 == RootsOf(parent)
    IN  \A x, y \in Elems :
            LET u  == union(parent, rank, x, y)
                r1 == RootsOf(u.p)
            IN  /\ u.ret \in BOOLEAN
                /\ (u.ret = FALSE) <=> (r0[x] = r0[y])
                /\ u.ret = FALSE =>
                      /\ u.rk = rank
                      /\ \A a, b \in Elems : (r1[a] = r1[b]) <=> (r0[a] = r0[b])
                /\ u.ret = TRUE =>
                      /\ r0[x] # r0[y]
                      /\ NumSets(r1) = NumSets(r0) - 1
                      /\ \A a, b \in Elems :
                            (r1[a] = r1[b]) <=>
                                \/ r0[a] = r0[b]
                                \/ {r0[a], r0[b]} = {r0[x], r0[y]}

\* union returned False on a pair joined only through other elements, and it
\* compressed a path while doing so.
C14_Witness ==
    /\ ucall.op = "union"
    /\ ucall.ret = FALSE
    /\ \E a, b \in Elems : a # b /\ parent[a] = b /\ rank[b] = 2
    /\ \E a \in Elems : rank[a] = 1 /\ parent[a] # a /\ rank[parent[a]] = 2
    /\ Cardinality({a \in Elems : parent[a] = a}) = 2

\* C15: after any sequence of union and find calls the parent array is a
\* forest: from every element the parent links reach, within NumElems - 1
\* steps, a root r with parent[r] = r, so the only cycles are the roots'
\* self-loops and find's recursion is bounded.
RECURSIVE Ancestor(_, _, _)
Ancestor(p, e, n) == IF n = 0 THEN e ELSE Ancestor(p, p[e], n - 1)

C15_ParentForest ==
    \A e \in Elems :
        /\ parent[e] \in Elems
        /\ LET r == Ancestor(parent, e, NumElems - 1) IN parent[r] = r

\* Unions have built a rank-2 tree that still holds a chain of depth two
\* below a root with three direct children.
C15_Witness ==
    /\ \E a, b, c \in Elems :
          /\ a # b /\ b # c /\ a # c
          /\ parent[a] = b /\ parent[b] = c /\ parent[c] = c
    /\ \E r \in Elems : rank[r] = 2 /\ Cardinality({e \in Elems : parent[e] = r}) = 4

\* C16: delete_val on a list whose head is None changes nothing (head stays
\* None, tail keeps its value, so both stay None on a new list); in every
\* reachable state find(v) is True exactly when a node reachable from head
\* holds v, for the values inserted and for the sentinel's value, and the
\* scan stops at the None that ends the chain.
C16_EmptyDeleteAndFind ==
    /\ (llast.op = "delete_val" /\ llast.prehead = None) =>
          /\ head = None
          /\ tail = llast.pretail
          /\ ListVals(nodes, head) = <<>>
          /\ ~ll_find(nodes, head, llast.v)
    /\ \A v \in ListValues \cup {DummyVal} :
          ll_find(nodes, head, v) <=>
              \E id \in ReachFrom(nodes, head) : nodes[id].val = v
    /\ head = None => \A v \in ListValues \cup {DummyVal} : ~ll_find(nodes, head, v)

\* delete_val has just run on a new, empty list.
C16_Witness ==
    /\ llast.op = "delete_val"
    /\ llast.prehead = None
    /\ llast.pretail = None
    /\ head = None
    /\ tail = None

\* find is True for a value held only by the last of several nodes.
C16_WitnessFind ==
    /\ Len(ListVals(nodes, head)) = MaxLen
    /\ ll_find(nodes, head, 2)
    /\ Count(ListVals(nodes, head), 2) = 1
    /\ nodes[LastNode(nodes, head)].val = 2

\* C17: on the empty tree no operation raises: search_bst is False,
\* delete_node returns None, level_order returns [], the three depth-first
\* traversals print nothing, and insert_bst returns a single node holding v;
\* the calls the model has made on an empty tree left exactly those results.
C17_EmptyTreeOps ==
    /\ tree = Nil =>
          /\ level_order(tree) = [raised |-> FALSE, out |-> <<>>]
          /\ inorder(tree) = <<>>
          /\ preorder(tree) = <<>>
          /\ postorder(tree) = <<>>
          /\ \A v \in Vals :
                /\ search_bst(tree, v) = FALSE
                /\ delete_node(tree, v) = Nil
                /\ insert_bst(tree, v) = TreeNode(v, Nil, Nil)
    /\ (blast.op = "delete" /\ blast.pre = Nil) => tree = Nil
    /\ (blast.op = "insert" /\ blast.pre = Nil) =>
          /\ tree = TreeNode(blast.v, Nil, Nil)
          /\ level_order(tree) = [raised |-> FALSE, out |-> <<blast.v>>]

\* delete_node has just run on an empty tree and returned None.
C17_Witness ==
    /\ blast.op = "delete"
    /\ blast.pre = Nil
    /\ tree = Nil

\* C18: heap_sort(arr) returns, without raising, the values of arr in
\* non-decreasing order, each as often as arr held it; [5,3,8,1] gives
\* [1,3,5,8].  The pops leave the caller's list empty.
C18_HeapSortSorts ==
    /\ heap_sort(<<5, 3, 8, 1>>).out = <<1, 3, 5, 8>>
    /\ scalls = 1 =>
          /\ sres.raised = FALSE
          /\ IsNonDecreasing(sres.out)
          /\ Len(sres.out) = Len(sinput)
          /\ \A v \in SortVals : Count(sres.out, v) = Count(sinput, v)
          /\ sres.out = SortedCopy(sinput)
          /\ sarr = <<>>

C18_Witness ==
    /\ scalls = 1
    /\ sinput = <<5, 3, 8, 1>>
    /\ sres.out = <<1, 3, 5, 8>>

\* C21: find(x), called in any reachable state, returns the root r that the
\* parent links led to before the call, leaves every element of the path
\* from x to r pointing at r, and changes the parent of no other element.
RECURSIVE PathTo(_, _)
PathTo(p, e) == IF p[e] = e THEN {e} ELSE {e} \cup PathTo(p, p[e])

C22_UnionByRank ==
    \A x, y \in Elems :
        LET px == RootOf(parent, x)
            py == RootOf(parent, y)
            u  == union(parent, rank, x, y)
        IN  px # py =>
              /\ rank[px] < rank[py] =>
                    /\ u.p[px] = py
                    /\ u.p[py] = py
                    /\ u.rk = rank
              /\ rank[px] > rank[py] =>
                    /\ u.p[py] = px
                    /\ u.p[px] = px
                    /\ u.rk = rank
              /\ rank[px] = rank[py] =>
                    /\ u.p[py] = px
                    /\ u.p[px] = px
                    /\ u.rk[px] = rank[px] + 1
                    /\ \A e \in Elems \ {px} : u.rk[e] = rank[e]

\* The last union hung a single element (rank 0) under the root of a pair
\* (rank 1), and the ranks stayed as they were.
C22_Witness ==
    /\ ucall = [op |-> "union", ret |-> TRUE]
    /\ \E r \in Elems :
          /\ rank[r] = 1
          /\ Cardinality({e \in Elems : parent[e] = r}) = 3
          /\ \A e \in Elems \ {r} : rank[e] = 0
          /\ Cardinality({e \in Elems : parent[e] = e}) = NumElems - 2

\* C30: in every reachable state each non-root element has a rank strictly
\* below its parent's rank, and in every step an element that is not a root
\* stays a non-root and keeps its rank.
C30_RanksIncrease ==
    /\ [](\A x \in Elems : parent[x] # x => rank[x] < rank[parent[x]])
    /\ [][\A x \in Elems : parent[x] # x => (parent'[x] # x /\ rank'[x] = rank[x])]_vars

\* A former root of rank 1 sits under a root of rank 2, and two elements of
\* rank 0 point at that root directly, one of them after path compression.
C30_Witness ==
    \E r, b \in Elems :
        /\ rank[r] = 2 /\ parent[r] = r
        /\ rank[b] = 1 /\ parent[b] = r
        /\ Cardinality({c \in Elems : rank[c] = 0 /\ parent[c] = r}) >= 2

\* C23: after root = delete_node(root, key) the tree holds the values it held
\* before minus one occurrence of key (the same values when key was absent),
\* so exactly one node, or none, is gone.  When key is at the root: with no
\* left child the right child is returned, with no right child the left one,
\* and with both the root takes the minimum of its right subtree, keeps its
\* left subtree, and the right subtree loses one node holding that minimum.
\* When key is smaller (larger) than the root's value, the root's value and
\* right (left) subtree are untouched.
C23_DeleteRemovesOne ==
    blast.op = "delete" =>
        LET pre == blast.pre
            key == blast.v
            before == inorder(pre)
            after == inorder(tree)
            present == key \in SeqRange(before)
        IN  /\ Size(tree) = Size(pre) - (IF present THEN 1 ELSE 0)
            /\ \A w \in Vals :
                  Count(after, w) = Count(before, w) - (IF w = key /\ present THEN 1 ELSE 0)
            /\ ~present => tree = pre
            /\ (pre # Nil /\ key = ValOf(pre)) =>
                  /\ LeftOf(pre) = Nil => tree = RightOf(pre)
                  /\ (LeftOf(pre) # Nil /\ RightOf(pre) = Nil) => tree = LeftOf(pre)
                  /\ (LeftOf(pre) # Nil /\ RightOf(pre) # Nil) =>
                        LET succ == SeqMin(inorder(RightOf(pre)))
                        IN  /\ ValOf(tree) = succ
                            /\ LeftOf(tree) = LeftOf(pre)
                            /\ Size(RightOf(tree)) = Size(RightOf(pre)) - 1
                            /\ inorder(RightOf(tree)) = RemoveFirst(inorder(RightOf(pre)), succ)
            /\ (pre # Nil /\ key < ValOf(pre)) =>
                  /\ ValOf(tree) = ValOf(pre)
                  /\ RightOf(tree) = RightOf(pre)
            /\ (pre # Nil /\ key > ValOf(pre)) =>
                  /\ ValOf(tree) = ValOf(pre)
                  /\ LeftOf(tree) = LeftOf(pre)

\* The root 2 had both children and its successor was not its right child
\* but the leftmost node below it (a second 2): the root kept the value 2
\* and that node was removed.
C23_Witness ==
    /\ blast.op = "delete"
    /\ blast.v = 2
    /\ blast.pre = TreeNode(2, TreeNode(1, Nil, Nil),
                            TreeNode(3, TreeNode(2, Nil, Nil), Nil))
    /\ tree = TreeNode(2, TreeNode(1, Nil, Nil), TreeNode(3, Nil, Nil))

\* C24: every one of the three sliding-window functions returns, for nums
\* and 1 <= k <= len(nums), the list of length len(nums) - k + 1 whose j-th
\* entry is the maximum of nums[j..j+k-1], so the three agree; while a
\* function runs its result is the prefix of that list computed so far, it
\* never reads the front of an empty deque, and the front it reads is an
\* index of the current window.
SetMax(S) == CHOOSE m \in S : \A w \in S : w <= m
WindowMax(nums, k) ==
    [j \in 1..(Len(nums) - k + 1) |-> SetMax({nums[t] : t \in j..(j + k - 1)})]

C24_WindowMaxAgree ==
    /\ wraised = FALSE
    /\ wfn \in WinFnSet =>
          /\ wres = SubSeq(WindowMax(wnums, wk), 1, IF wi >= wk THEN wi - wk + 1 ELSE 0)
          /\ wi >= wk =>
                /\ wdq # <<>>
                /\ Head(wdq) \in (wi - wk)..(wi - 1)
    /\ \A f \in WinFnSet :
          (wout[f] # <<>> \/ wfn = "done") =>
              /\ wout[f] = WindowMax(wnums, wk)
              /\ Len(wout[f]) = Len(wnums) - wk + 1
    /\ wfn = "done" => (wout["sw"] = wout["misc"] /\ wout["misc"] = wout["queue"])

\* All three have returned on an input where the first maximum leaves the
\* window and the front index has to be dropped.
C24_Witness ==
    /\ wfn = "done"
    /\ wnums = <<1, 0, 0 - 1, 0>>
    /\ wk = 2
    /\ wout["queue"] = <<1, 0, 0>>

\* C25: on a sorted list lower_bound returns the first index whose element is
\* >= target and upper_bound the first index whose element is > target,
\* len(nums) when there is none; every nums[mid] they read has mid inside
\* 0..len(nums)-1, each pass narrows [left, right), and the loop test runs at
\* most len(nums) + 1 times.
FirstIndex(nums, Ok(_)) ==
    IF \E i \in 0..(Len(nums) - 1) : Ok(At(nums, i))
    THEN CHOOSE i \in 0..(Len(nums) - 1) :
             Ok(At(nums, i)) /\ \A j \in 0..(i - 1) : ~Ok(At(nums, j))
    ELSE Len(nums)

C25_BoundsAreFirstIndex ==
    bfn \in {"lower_bound", "upper_bound"} =>
        /\ boob = FALSE
        /\ bsteps <= Len(bnums) + 1
        /\ 0 <= bleft /\ bleft <= bright /\ bright <= Len(bnums)
        /\ (bpc = "loop" /\ bsteps > 0) => bright - bleft < bwidth
        /\ (bpc = "done" /\ bfn = "lower_bound") =>
              LET AtLeast(v) == v >= btarget IN bret = FirstIndex(bnums, AtLeast)
        /\ (bpc = "done" /\ bfn = "upper_bound") =>
              LET Above(v) == v > btarget IN bret = FirstIndex(bnums, Above)

\* lower_bound has returned the first of several elements equal to the
\* target, after more than two passes.
C25_Witness ==
    /\ bfn = "lower_bound"
    /\ bpc = "done"
    /\ bnums = <<1, 2, 2, 2, 3, 3>>
    /\ btarget = 2
    /\ bret = 1
    /\ bsteps >= 3

\* C26: on a sorted list (the empty one included) binary_search returns an
\* index holding target when target occurs and -1 when it does not; every
\* pass that does not return narrows [left, right], no index outside the
\* list is read, and the loop test runs at most len(arr) + 1 times.
C26_BinarySearch ==
    bfn = "binary_search" =>
        /\ boob = FALSE
        /\ bsteps <= Len(bnums) + 1
        /\ (bpc = "loop" /\ bsteps > 0) => bright - bleft < bwidth
        /\ bpc = "done" =>
              /\ bret = NotFound <=> btarget \notin SeqRange(bnums)
              /\ bret # NotFound => (InRange(bnums, bret) /\ At(bnums, bret) = btarget)

\* binary_search has found a target that is not at the first midpoint.
C26_Witness ==
    /\ bfn = "binary_search"
    /\ bpc = "done"
    /\ bnums = <<1, 1, 2, 3, 3>>
    /\ btarget = 2
    /\ bret = 2
    /\ bsteps >= 1

\* C27: after any pushes and pops, whenever the stack is non-empty getMin()
\* returns the minimum of the values on it and top() its last element, and
\* stack2 is empty exactly when stack is; a pop of the empty stack raises
\* and changes nothing.
C27_MinStackMin ==
    /\ (mstack2 = <<>>) <=> (mstack = <<>>)
    /\ mstack # <<>> =>
          /\ ms_getMin(mstack2) = [raised |-> FALSE, out |-> SeqMin(mstack)]
          /\ ms_top(mstack) = [raised |-> FALSE, out |-> mstack[Len(mstack)]]
    /\ (mcall.op = "push" /\ mstack # <<>>) => ms_top(mstack).out = mcall.v
    /\ mcall.raised => (mcall.op = "pop" /\ mstack = <<>> /\ mstack2 = <<>>)

\* The minimum 1 was pushed twice and one copy has just been popped: the
\* other is still the minimum and still on stack2.
C27_Witness ==
    /\ mcall = [op |-> "pop", v |-> 1, raised |-> FALSE]
    /\ mstack = <<2, 1>>
    /\ mstack2 = <<2, 1>>

\* C28: decode(encode(strs)) = strs for every list of strings, the empty
\* list, [""], lists of several empty strings, and strings holding the
\* delimiter text or a special token included.
C28_RoundTrip ==
    cpc = "decoded" => cdec = cstrs

\* C29: has_cycle(head) returns after at most len + 1 loop tests on every
\* chain, whatever the length of its tail and of its cycle, and returns True
\* exactly when the last node's next leads back into the chain; it returns
\* False for the empty list and for a single node whose next is None.
C29_HasCycle ==
    /\ cpasses <= cnodes + 1
    /\ chpc = "done" => (cret <=> cback # None)
    /\ (chpc = "done" /\ cnodes = 0) => (cret = FALSE /\ cpasses = 1)
    /\ (chpc = "done" /\ cnodes = 1 /\ cback = None) => (cret = FALSE /\ cpasses = 1)

\* True was returned on a chain with a tail of two nodes before a cycle of
\* three, after the pointers went round more than once.
C29_Witness ==
    /\ chpc = "done"
    /\ cnodes = 5
    /\ cback = 3
    /\ cret = TRUE
    /\ cpasses >= 3

====
